---------------------------- MODULE Spec2Model ----------------------------
(***************************************************************************)
(* Model of src/parser.js of wordpress-export-to-markdown: the extraction  *)
(* of posts from a WordPress export, the enrichment of ai1ec_event posts   *)
(* over HTTP (collectPosts, getEventMetadata) and the correlation of       *)
(* images with posts (mergeImagesIntoPosts).                               *)
(*                                                                         *)
(* Encoding of JavaScript values.  Strings are TLA+ strings.  undefined    *)
(* and the number -1 are the reserved strings Undefined and ScrapedId,     *)
(* which no string of the export equals, so = on encoded values is ===.    *)
(* A URL is the sequence of its "/"-separated segments.  Composed text     *)
(* (an address) is the sequence of its pieces.  One time unit is 1000 ms.  *)
(***************************************************************************)
EXTENDS Integers, Sequences, FiniteSets, TLC

VARIABLES
    variant,     \* "net": parser.js:283-574 (HTTP); "json": parser.js:1-282
    config,      \* run configuration handed to parseFilePromise
    items,       \* data.rss.channel[0].item
    phase,       \* position of parseFilePromise
    postTypes,   \* result of getPostTypes
    typeIdx,     \* position of the for..of loop of collectPosts
    pc,          \* per item: position of its async map callback
    outcome,     \* per item: how its callback ended
    timer,       \* per item: due time of its pending setTimeout, or NoTimer
    reqCount,    \* per item: number of fetch() calls issued for it
    reqTime,     \* per item: time of its last fetch() call
    reqId,       \* per item: id its last fetch() URL was built from
    result,      \* per item: <<value>> its callback's promise resolved with
    allPosts,    \* allPosts of collectPosts, then posts of parseFilePromise
    images,      \* images of parseFilePromise
    mi,          \* index of the outer forEach of mergeImagesIntoPosts
    mj,          \* index of the inner forEach of mergeImagesIntoPosts
    now,         \* the clock
    outOfOrder   \* history: some callback settled before an earlier one of its type

vars == <<variant, config, items, phase, postTypes, typeIdx, pc, outcome, timer,
          reqCount, reqTime, reqId, result, allPosts, images, mi, mj, now,
          outOfOrder>>

---------------------------------------------------------------------------
(* Bounds of the model *)

MaxItems == 3

MaxTime == 11

MaxImages == 2

MaxPosts == 2

(* Program constants, in time units of 1000 ms *)

PacingDelay == 5

FetchTimeout == 10

---------------------------------------------------------------------------
(* Encoded JavaScript values *)

Undefined == "<undefined>"

ScrapedId == "<number -1>"

NoTimer == -1

EventType == "ai1ec_event"

ExcludedTypes ==
    {"attachment", "revision", "nav_menu_item", "custom_css", "customize_changeset"}

Truthy(v) == v # Undefined /\ v # ""

Last(s) == s[Len(s)]

SeqToSet(s) == {s[k] : k \in 1..Len(s)}

RECURSIVE SelectIdx(_, _)
\* the indices k..Len(keep) at which the sequence of booleans keep is TRUE
SelectIdx(keep, k) ==
    IF k > Len(keep) THEN <<>>
    ELSE IF keep[k] THEN <<k>> \o SelectIdx(keep, k + 1)
    ELSE SelectIdx(keep, k + 1)

RECURSIVE Dedup(_)
\* [...new Set(s)]: first occurrences, in order
Dedup(s) ==
    IF s = <<>> THEN <<>>
    ELSE LET r == Dedup(SubSeq(s, 1, Len(s) - 1))
         IN IF Last(s) \in SeqToSet(r) THEN r ELSE Append(r, Last(s))

RECURSIVE Flatten(_)
Flatten(ss) == IF ss = <<>> THEN <<>> ELSE Head(ss) \o Flatten(Tail(ss))


---------------------------------------------------------------------------
(* The export.  Every item carries the fields the parser reads; a field    *)
(* the export lacks is Undefined.  post.category is absent in every        *)
(* modelled item, so categories and tags are [] (processCategoryTags).     *)
(* imgs is the list of absolute URLs that the <img> pattern of             *)
(* collectScrapedImages matches in the body, each resolved against link.   *)

Url(file) == <<"http:", "", "ex.com", file>>

Item(kind, k) ==
    [ post_type |-> CASE kind \in {"event", "noid", "draft"} -> EventType
                      [] kind \in {"post", "trash"} -> "post"
                      [] OTHER -> "attachment",
      status    |-> IF kind \in {"draft", "trash"} THEN kind ELSE "publish",
      post_id   |-> IF kind = "noid" THEN Undefined ELSE ToString(k),
      post_name |-> <<"slug", k>>,
      title     |-> <<"title", k>>,
      pubDate   |-> <<"pubDate", k>>,
      creator   |-> "admin",
      thumb     |-> IF kind = "post" THEN ToString(k + 1) ELSE Undefined,
      post_parent    |-> IF kind = "attachment" THEN "1" ELSE "0",
      attachment_url |-> IF kind = "attachment" THEN Url("a.png") ELSE <<>>,
      encoded   |-> <<"body", k>>,
      imgs      |-> CASE kind = "post" -> <<Url("a.png")>>
                      [] kind = "trash" -> <<Url("x.jpg")>>
                      [] OTHER -> <<>> ]

ItemKinds == {"event", "noid", "draft", "post", "trash", "attachment"}

Exports ==
    { [k \in 1..MaxItems |-> Item(f[k], k)] : f \in [1..MaxItems -> ItemKinds] }

N == Len(items)

(* The answer of the events service: a JSON body with or without the       *)
(* event_data object.                                                      *)
EventData ==
    [ start_datetime |-> "2020-01-01 10:00", end_datetime |-> "2020-01-01 11:00",
      venue |-> "Hall", province |-> "MA", city |-> "Cambridge",
      address |-> "1 Oxford St", postal_code |-> "02138",
      ical_source_url |-> "http://ical" ]

BodyWithEventData == [id |-> 0, event_data |-> EventData]

BodyWithoutEventData == [code |-> "rest_no_route"]

JsonBodies == {BodyWithEventData, BodyWithoutEventData}

---------------------------------------------------------------------------
(* Pure functions of parser.js *)

\* mutant of getPostTypes: the duplicates are not removed
getPostTypesNoDedup(data, includeOtherTypes) ==
    IF includeOtherTypes
    THEN LET types == [k \in 1..Len(data) |-> data[k].post_type]
             Keep(t) == t \notin ExcludedTypes
         IN SelectSeq(types, Keep)
    ELSE <<"post">>

getPostTypes(data, includeOtherTypes) ==
    IF includeOtherTypes
    THEN LET types == [k \in 1..Len(data) |-> data[k].post_type]
             Keep(t) == t \notin ExcludedTypes
         IN Dedup(SelectSeq(types, Keep))
    ELSE <<"post">>

\* indices, in export order, of the items of the type
getItemsOfType(data, type) ==
    SelectIdx([k \in 1..Len(data) |-> data[k].post_type = type], 1)

\* mutant of postsForType: only the trashed items are left out
postsForTypeKeepsDrafts(data, type) ==
    LET ofType == getItemsOfType(data, type)
        Keep(k) == data[k].status # "trash"
    IN SelectSeq(ofType, Keep)

\* postsForType of collectPosts: the items of the type that are neither trash nor draft
postsForType(data, type) ==
    LET ofType == getItemsOfType(data, type)
        Keep(k) == data[k].status # "trash" /\ data[k].status # "draft"
    IN SelectSeq(ofType, Keep)

getPostId(post) == post.post_id

getPostSlug(post) == post.post_name

getPostCoverImageId(post) == post.thumb

getPostTitle(post) == post.title

getPostDate(post) == <<"ISODate", post.pubDate>>

getPostCreator(post) == post.creator

getPostContent(post) == <<"markdown", post.encoded>>

Meta(post, postType) ==
    [ id |-> getPostId(post), slug |-> getPostSlug(post),
      coverImageId |-> getPostCoverImageId(post), type |-> postType,
      imageUrls |-> <<>> ]

Frontmatter(post, postType) ==
    [ title |-> getPostTitle(post), date |-> getPostDate(post),
      categories |-> <<>>, tags |-> <<>>, wp_id |-> getPostId(post),
      wp_type |-> postType, wp_slug |-> getPostSlug(post),
      creator |-> getPostCreator(post) ]

\* getAddress of the HTTP variant: the four components joined unconditionally
\* (a template literal: an absent component comes out as the text undefined)
getAddress(eventMetadata) ==
    LET e == eventMetadata.event_data
        Str(c) == IF c = Undefined THEN "undefined" ELSE c
    IN <<Str(e.address), ", ", Str(e.city), ", ", Str(e.province), ", ",
         Str(e.postal_code)>>

\* mutant of EnrichedFrontmatter: the whole event_data object is spread in
EnrichedFrontmatterSpread(frontmatter, eventMetadata) ==
    [ address |-> getAddress(eventMetadata) ] @@ eventMetadata.event_data @@ frontmatter

EnrichedFrontmatter(frontmatter, eventMetadata) ==
    [ start_datetime |-> eventMetadata.event_data.start_datetime,
      end_datetime |-> eventMetadata.event_data.end_datetime,
      venue |-> eventMetadata.event_data.venue,
      address |-> getAddress(eventMetadata),
      ical_source_url |-> eventMetadata.event_data.ical_source_url ] @@ frontmatter

\* the object a callback of collectPosts returns; eventMetadata is <<>>
\* (undefined) or <<body>>
PostRecord(post, postType, eventMetadata) ==
    [ meta |-> Meta(post, postType),
      frontmatter |->
          IF eventMetadata = <<>> \/ "event_data" \notin DOMAIN eventMetadata[1]
          THEN Frontmatter(post, postType)
          ELSE EnrichedFrontmatter(Frontmatter(post, postType), eventMetadata[1]),
      content |-> getPostContent(post) ]

IsImageUrl(url) == Last(url) \in {"a.png", "b.gif", "x.jpg", "y.JPEG"}

collectAttachedImages(data) ==
    LET att == getItemsOfType(data, "attachment")
        Img(k) == IsImageUrl(data[k].attachment_url)
        keep == SelectSeq(att, Img)
    IN [n \in 1..Len(keep) |->
           [ id |-> data[keep[n]].post_id, postId |-> data[keep[n]].post_parent,
             url |-> data[keep[n]].attachment_url ]]

collectScrapedImages(data, types) ==
    LET OfPost(k) ==
            [n \in 1..Len(data[k].imgs) |->
                [id |-> ScrapedId, postId |-> data[k].post_id, url |-> data[k].imgs[n]]]
        OfType(t) ==
            LET its == getItemsOfType(data, t)
            IN Flatten([n \in 1..Len(its) |-> OfPost(its[n])])
    IN Flatten([n \in 1..Len(types) |-> OfType(types[n])])

getFilenameFromUrl(url) == Last(url)

---------------------------------------------------------------------------
(* collectPosts: one async callback per selected item of the current type  *)

Pending(i) == pc[i] \in {"delay", "fetch", "body"}

\* the callback of item i from line 353 on, up to its next await or its end
Proceed(i, postType) ==
    IF getPostId(items[i]) = Undefined
    THEN \* post.post_id[0] throws a TypeError
         [pc |-> "threw", outcome |-> "malformed", timer |-> NoTimer,
          fetch |-> FALSE, result |-> <<>>]
    ELSE IF postType # EventType
    THEN [pc |-> "returned", outcome |-> "plain", timer |-> NoTimer,
          fetch |-> FALSE, result |-> <<PostRecord(items[i], postType, <<>>)>>]
    ELSE \* getEventMetadata: setTimeout(abort, 10000) and fetch(...)
         [pc |-> "fetch", outcome |-> "none", timer |-> now + FetchTimeout,
          fetch |-> TRUE, result |-> <<>>]

\* the callback of item i from its start: index 0 proceeds, the others
\* first await delay(5000)
StartCallback(i, postType, index) ==
    IF index # 0
    THEN [pc |-> "delay", outcome |-> "none", timer |-> now + PacingDelay,
          fetch |-> FALSE, result |-> <<>>]
    ELSE Proceed(i, postType)

\* position (from 0) of item i in the list sel
IndexIn(sel, i) == CHOOSE n \in 0..(Len(sel) - 1) : sel[n + 1] = i

\* a settling callback overtakes an earlier callback of its type
Overtakes(i, postType) ==
    \E j \in SeqToSet(postsForType(items, postType)) : j < i /\ Pending(j)

\* the state after the callbacks u (a function on the set S of items) ran
Apply(S, u, newPhase) ==
    /\ pc' = [i \in 1..N |-> IF i \in S THEN u[i].pc ELSE pc[i]]
    /\ outcome' = [i \in 1..N |-> IF i \in S THEN u[i].outcome ELSE outcome[i]]
    /\ timer' = [i \in 1..N |-> IF i \in S THEN u[i].timer ELSE timer[i]]
    /\ result' = [i \in 1..N |-> IF i \in S THEN u[i].result ELSE result[i]]
    /\ reqCount' = [i \in 1..N |->
                       IF i \in S /\ u[i].fetch THEN reqCount[i] + 1 ELSE reqCount[i]]
    /\ reqTime' = [i \in 1..N |-> IF i \in S /\ u[i].fetch THEN now ELSE reqTime[i]]
    /\ reqId' = [i \in 1..N |->
                    IF i \in S /\ u[i].fetch THEN getPostId(items[i]) ELSE reqId[i]]
    \* a rejected callback rejects Promise.all, collectPosts and parseFilePromise
    /\ phase' = IF newPhase = "collect" /\ \E i \in S : u[i].pc = "threw"
                THEN "failed" ELSE newPhase
    /\ outOfOrder' =
          (outOfOrder \/ \E i \in S : /\ u[i].pc \in {"returned", "threw"}
                                      /\ Overtakes(i, items[i].post_type))

\* mutant of BeginType: the callbacks of every type from the k-th on are
\* started together, as if the loop did not await each type
BeginTypeAll(k, types) ==
    LET S == UNION {SeqToSet(postsForType(items, types[m])) : m \in k..Len(types)}
        u == [i \in S |->
                StartCallback(i, items[i].post_type,
                              IndexIn(postsForType(items, items[i].post_type), i))]
    IN /\ typeIdx' = k
       /\ Apply(S, u, "collect")

\* one iteration of the for..of loop up to its await: the map over postsForType
BeginType(k, types) ==
    LET postType == types[k]
        sel == postsForType(items, postType)
        S == SeqToSet(sel)
        u == [i \in S |-> StartCallback(i, postType, IndexIn(sel, i))]
    IN /\ typeIdx' = k
       /\ Apply(S, u, "collect")

\* parseFilePromise up to the first await inside collectPosts
Start ==
    /\ phase = "parsed"
    /\ postTypes' = getPostTypes(items, config.includeOtherTypes)
    /\ IF postTypes' = <<>>
       THEN /\ phase' = "collected"
            /\ UNCHANGED <<typeIdx, pc, outcome, timer, result, reqCount, reqTime,
                           reqId, outOfOrder>>
       ELSE BeginType(1, postTypes')
    /\ UNCHANGED <<variant, config, items, allPosts, images, mi, mj, now>>

\* the timer of delay(5000) fires and the callback goes on
DelayFire(i) ==
    /\ pc[i] = "delay"
    /\ timer[i] = now
    /\ Apply({i}, [j \in {i} |-> Proceed(i, items[i].post_type)], phase)
    /\ UNCHANGED <<variant, config, items, postTypes, typeIdx, allPosts, images,
                   mi, mj, now>>

\* the response arrives with an OK status: clearTimeout, then res.json() is awaited
FetchOk(i) ==
    /\ pc[i] = "fetch"
    /\ Apply({i}, [j \in {i} |->
            [pc |-> "body", outcome |-> "none", timer |-> NoTimer,
             fetch |-> FALSE, result |-> <<>>]], phase)
    /\ UNCHANGED <<variant, config, items, postTypes, typeIdx, allPosts, images,
                   mi, mj, now>>

\* mutant of FetchNotOk: a non-OK status rejects the call
FetchNotOkRejects(i) ==
    /\ pc[i] = "fetch"
    /\ Apply({i}, [j \in {i} |->
            [pc |-> "threw", outcome |-> "nonok", timer |-> NoTimer,
             fetch |-> FALSE, result |-> <<>>]], phase)
    /\ UNCHANGED <<variant, config, items, postTypes, typeIdx, allPosts, images,
                   mi, mj, now>>

\* the response arrives with a non-OK status: clearTimeout, resolve(undefined)
FetchNotOk(i) ==
    /\ pc[i] = "fetch"
    /\ Apply({i}, [j \in {i} |->
            [pc |-> "returned", outcome |-> "nonok", timer |-> NoTimer,
             fetch |-> FALSE,
             result |-> <<PostRecord(items[i], items[i].post_type, <<>>)>>]], phase)
    /\ UNCHANGED <<variant, config, items, postTypes, typeIdx, allPosts, images,
                   mi, mj, now>>

\* mutant of FetchError: the request is issued again after a transport error
FetchErrorRetry(i) ==
    /\ pc[i] = "fetch"
    /\ Apply({i}, [j \in {i} |->
            [pc |-> "fetch", outcome |-> "none", timer |-> now + FetchTimeout,
             fetch |-> TRUE, result |-> <<>>]], phase)
    /\ UNCHANGED <<variant, config, items, postTypes, typeIdx, allPosts, images,
                   mi, mj, now>>

\* fetch rejects (transport error): reject(err); the abort timer stays armed
FetchError(i) ==
    /\ pc[i] = "fetch"
    /\ Apply({i}, [j \in {i} |->
            [pc |-> "threw", outcome |-> "transport", timer |-> timer[i],
             fetch |-> FALSE, result |-> <<>>]], phase)
    /\ UNCHANGED <<variant, config, items, postTypes, typeIdx, allPosts, images,
                   mi, mj, now>>

\* mutant of AbortTimer: one controller shared by all calls, so that the
\* expiry of one timer aborts every pending fetch
AbortTimerAll(i) ==
    /\ pc[i] \in {"fetch", "threw"}
    /\ timer[i] = now
    /\ LET S == {i} \cup {j \in 1..N : pc[j] = "fetch"}
       IN Apply(S, [j \in S |->
            [pc |-> "threw",
             outcome |-> IF pc[j] = "fetch" THEN "timeout" ELSE outcome[j],
             timer |-> NoTimer, fetch |-> FALSE, result |-> <<>>]], phase)
    /\ UNCHANGED <<variant, config, items, postTypes, typeIdx, allPosts, images,
                   mi, mj, now>>

\* the timer of line 539 fires: controller.abort(); a pending fetch rejects
AbortTimer(i) ==
    /\ pc[i] \in {"fetch", "threw"}
    /\ timer[i] = now
    /\ Apply({i}, [j \in {i} |->
            [pc |-> "threw",
             outcome |-> IF pc[i] = "fetch" THEN "timeout" ELSE outcome[i],
             timer |-> NoTimer, fetch |-> FALSE, result |-> <<>>]], phase)
    /\ UNCHANGED <<variant, config, items, postTypes, typeIdx, allPosts, images,
                   mi, mj, now>>

\* res.json() resolves with a body: resolve(data), and the callback returns
BodyJson(i, body) ==
    /\ pc[i] = "body"
    /\ Apply({i}, [j \in {i} |->
            [pc |-> "returned",
             outcome |-> IF "event_data" \in DOMAIN body THEN "ok" ELSE "nodata",
             timer |-> NoTimer, fetch |-> FALSE,
             result |-> <<PostRecord(items[i], items[i].post_type, <<body>>)>>]], phase)
    /\ UNCHANGED <<variant, config, items, postTypes, typeIdx, allPosts, images,
                   mi, mj, now>>

\* res.json() rejects (broken connection, invalid JSON): reject(err)
BodyError(i) ==
    /\ pc[i] = "body"
    /\ Apply({i}, [j \in {i} |->
            [pc |-> "threw", outcome |-> "bodyerr", timer |-> NoTimer,
             fetch |-> FALSE, result |-> <<>>]], phase)
    /\ UNCHANGED <<variant, config, items, postTypes, typeIdx, allPosts, images,
                   mi, mj, now>>

\* mutant of ResolvedPostsForType: the values in the reverse order of the map
ResolvedPostsReversed(sel) ==
    [n \in 1..Len(sel) |-> result[sel[Len(sel) + 1 - n]][1]]

\* the values Promise.all resolves with: one per callback, in the order of the map
ResolvedPostsForType(sel) == [n \in 1..Len(sel) |-> result[sel[n]][1]]

\* mutant of AwaitAll: the loop goes on as soon as the first callback of the
\* type has returned, with the values that are there by then
AwaitAllAny ==
    /\ phase = "collect"
    /\ LET sel == postsForType(items, postTypes[typeIdx])
           Done(i) == pc[i] = "returned"
       IN /\ sel # <<>> => pc[sel[1]] = "returned"
          /\ allPosts' = allPosts \o ResolvedPostsForType(SelectSeq(sel, Done))
    /\ IF typeIdx < Len(postTypes)
       THEN BeginType(typeIdx + 1, postTypes)
       ELSE /\ phase' = "collected"
            /\ UNCHANGED <<typeIdx, pc, outcome, timer, result, reqCount, reqTime,
                           reqId, outOfOrder>>
    /\ UNCHANGED <<variant, config, items, postTypes, images, mi, mj, now>>

\* Promise.all of the current type resolved: push, then the next iteration
\* of the loop or the return of collectPosts
AwaitAll ==
    /\ phase = "collect"
    /\ LET sel == postsForType(items, postTypes[typeIdx])
       IN /\ \A i \in SeqToSet(sel) : pc[i] = "returned"
          /\ allPosts' = allPosts \o ResolvedPostsForType(sel)
    /\ IF typeIdx < Len(postTypes)
       THEN BeginType(typeIdx + 1, postTypes)
       ELSE /\ phase' = "collected"
            /\ UNCHANGED <<typeIdx, pc, outcome, timer, result, reqCount, reqTime,
                           reqId, outOfOrder>>
    /\ UNCHANGED <<variant, config, items, postTypes, images, mi, mj, now>>

\* time passes while something is awaited; a due timer fires first
Tick ==
    /\ now < MaxTime
    /\ \E i \in 1..N : Pending(i) \/ timer[i] # NoTimer
    /\ \A i \in 1..N : timer[i] # now
    /\ now' = now + 1
    /\ UNCHANGED <<variant, config, items, phase, postTypes, typeIdx, pc, outcome,
                   timer, reqCount, reqTime, reqId, result, allPosts, images, mi, mj,
                   outOfOrder>>

---------------------------------------------------------------------------
(* parseFilePromise after collectPosts, and mergeImagesIntoPosts           *)

\* lines 302-308, up to the call of mergeImagesIntoPosts.  The two image
\* flags of the configuration are read nowhere else: they are drawn here.
CollectImages ==
    /\ phase = "collected"
    /\ \E attached \in BOOLEAN, scraped \in BOOLEAN :
          /\ config' = [config EXCEPT !.saveAttachedImages = attached,
                                      !.saveScrapedImages = scraped]
          /\ images' = (IF attached THEN collectAttachedImages(items) ELSE <<>>)
                       \o (IF scraped
                           THEN collectScrapedImages(items, postTypes) ELSE <<>>)
    /\ phase' = "merge"
    /\ mi' = 1
    /\ mj' = 1
    /\ UNCHANGED <<variant, items, postTypes, typeIdx, pc, outcome, timer,
                   reqCount, reqTime, reqId, result, allPosts, now, outOfOrder>>

\* mutant of RuleA: the image's own id is compared instead of its postId
RuleAWrongField(image, post, v) == image.id = post.meta.id

\* Rule A: the image was uploaded as an attachment to the post
RuleA(image, post, v) ==
    IF v = "net"
    THEN image.postId = post.meta.id
    ELSE Truthy(post.meta.id) /\ Truthy(image.postId) /\ image.postId = post.meta.id

\* Rule B: the image is the featured image of the post
RuleB(image, post, v) ==
    IF v = "net"
    THEN image.id = post.meta.coverImageId
    ELSE /\ Truthy(image.id) /\ Truthy(post.meta.coverImageId)
         /\ image.id = post.meta.coverImageId

\* mutant of PushUrl: the includes() test is dropped
PushUrlAlways(imageUrls, url, shouldAttach) ==
    IF shouldAttach THEN Append(imageUrls, url) ELSE imageUrls

\* imageUrls after the body of the inner loop
PushUrl(imageUrls, url, shouldAttach) ==
    IF shouldAttach /\ url \notin SeqToSet(imageUrls)
    THEN Append(imageUrls, url) ELSE imageUrls

\* mutant of MergeOne: a coverImage that is already set is kept
MergeOneKeepsFirstCover(image, post, v) ==
    LET shouldAttach == RuleA(image, post, v) \/ RuleB(image, post, v)
        fm == IF RuleB(image, post, v)
              THEN post.frontmatter @@ [coverImage |-> getFilenameFromUrl(image.url)]
              ELSE post.frontmatter
    IN [ meta |-> [post.meta EXCEPT !.imageUrls = PushUrl(@, image.url, shouldAttach)],
         frontmatter |-> fm,
         content |-> post.content ]

\* the post after the body of the inner loop ran for (image, post)
MergeOne(image, post, v) ==
    LET shouldAttach == RuleA(image, post, v) \/ RuleB(image, post, v)
        fm == IF RuleB(image, post, v)
              THEN [coverImage |-> getFilenameFromUrl(image.url)] @@ post.frontmatter
              ELSE post.frontmatter
    IN [ meta |-> [post.meta EXCEPT !.imageUrls = PushUrl(@, image.url, shouldAttach)],
         frontmatter |-> fm,
         content |-> post.content ]

\* mutant of MergeStep: the outer loop consumes the list, shifting each
\* image off once it has been tried on every post
MergeStepConsumes ==
    /\ phase = "merge"
    /\ mi <= Len(images)
    /\ mj <= Len(allPosts)
    /\ allPosts' = [allPosts EXCEPT ![mj] = MergeOne(images[mi], allPosts[mj], variant)]
    /\ IF mj < Len(allPosts)
       THEN mj' = mj + 1 /\ mi' = mi /\ images' = images
       ELSE mj' = 1 /\ mi' = mi /\ images' = Tail(images)
    /\ UNCHANGED <<variant, config, items, phase, postTypes, typeIdx, pc, outcome,
                   timer, reqCount, reqTime, reqId, result, now, outOfOrder>>

\* one round of the inner forEach of mergeImagesIntoPosts
MergeStep ==
    /\ phase = "merge"
    /\ mi <= Len(images)
    /\ mj <= Len(allPosts)
    /\ allPosts' = [allPosts EXCEPT ![mj] = MergeOne(images[mi], allPosts[mj], variant)]
    /\ IF mj < Len(allPosts)
       THEN mj' = mj + 1 /\ mi' = mi
       ELSE mj' = 1 /\ mi' = mi + 1
    /\ UNCHANGED <<variant, config, items, phase, postTypes, typeIdx, pc, outcome,
                   timer, reqCount, reqTime, reqId, result, images, now, outOfOrder>>

\* mergeImagesIntoPosts is through; parseFilePromise returns posts
Return ==
    /\ phase = "merge"
    /\ mi > Len(images) \/ allPosts = <<>>
    /\ phase' = "done"
    /\ UNCHANGED <<variant, config, items, postTypes, typeIdx, pc, outcome, timer,
                   reqCount, reqTime, reqId, result, allPosts, images, mi, mj, now,
                   outOfOrder>>

---------------------------------------------------------------------------
(* The run of parseFilePromise (HTTP variant) over an export               *)

Configs ==
    [includeOtherTypes : BOOLEAN, saveAttachedImages : {FALSE},
     saveScrapedImages : {FALSE}]

Init ==
    /\ variant = "net"
    /\ config \in Configs
    /\ items \in Exports
    /\ phase = "parsed"
    /\ postTypes = <<>>
    /\ typeIdx = 0
    /\ pc = [i \in 1..MaxItems |-> "idle"]
    /\ outcome = [i \in 1..MaxItems |-> "none"]
    /\ timer = [i \in 1..MaxItems |-> NoTimer]
    /\ reqCount = [i \in 1..MaxItems |-> 0]
    /\ reqTime = [i \in 1..MaxItems |-> 0]
    /\ reqId = [i \in 1..MaxItems |-> Undefined]
    /\ result = [i \in 1..MaxItems |-> <<>>]
    /\ allPosts = <<>>
    /\ images = <<>>
    /\ mi = 0
    /\ mj = 0
    /\ now = 0
    /\ outOfOrder = FALSE

Next ==
    \/ Start
    \/ \E i \in 1..N : DelayFire(i)
    \/ \E i \in 1..N : FetchOk(i)
    \/ \E i \in 1..N : FetchNotOk(i)
    \/ \E i \in 1..N : FetchError(i)
    \/ \E i \in 1..N : AbortTimer(i)
    \/ \E i \in 1..N, body \in JsonBodies : BodyJson(i, body)
    \/ \E i \in 1..N : BodyError(i)
    \/ AwaitAll
    \/ CollectImages
    \/ MergeStep
    \/ Return
    \/ Tick

Spec == Init /\ [][Next]_vars

---------------------------------------------------------------------------
(* mergeImagesIntoPosts on its own, over any posts and any images that     *)
(* parseFilePromise can hand it: attached images first, then scraped ones  *)

PostIds == {"10", "11"}

CoverIds == {"6", Undefined}

AttachmentIds == {"5", "6"}

ImageUrls == {Url("a.png"), Url("b.gif")}

MergePosts ==
    { PostRecord([Item("post", 0) EXCEPT !.post_id = id, !.thumb = cover], "post", <<>>) :
          id \in PostIds, cover \in CoverIds }

AttachedImages == [id : AttachmentIds, postId : PostIds, url : ImageUrls]

ScrapedImages == [id : {ScrapedId}, postId : PostIds, url : ImageUrls]

SeqsUpTo(S, n) == UNION {[1..k -> S] : k \in 0..n}

MergeImageLists ==
    { a \o s : <<a, s>> \in
         { <<a, s>> \in SeqsUpTo(AttachedImages, MaxImages)
                        \X SeqsUpTo(ScrapedImages, MaxImages) :
              Len(a) + Len(s) <= MaxImages } }

InitMerge ==
    /\ variant \in {"net", "json"}
    /\ config = [includeOtherTypes |-> TRUE, saveAttachedImages |-> TRUE,
                 saveScrapedImages |-> TRUE]
    /\ items = <<>>
    /\ phase = "merge"
    /\ postTypes = <<"post">>
    /\ typeIdx = 1
    /\ pc = <<>>
    /\ outcome = <<>>
    /\ timer = <<>>
    /\ reqCount = <<>>
    /\ reqTime = <<>>
    /\ reqId = <<>>
    /\ result = <<>>
    /\ allPosts \in SeqsUpTo(MergePosts, MaxPosts)
    /\ images \in MergeImageLists
    /\ mi = 1
    /\ mj = 1
    /\ now = 0
    /\ outOfOrder = FALSE

NextMerge == MergeStep \/ Return

SpecMerge == InitMerge /\ [][NextMerge]_vars

---------------------------------------------------------------------------
(* The enrichment of one event record, over answers whose address          *)
(* components may be absent, empty or blank                                *)

\* a component of event_data: absent, empty, whitespace only, or a text
Components(text) == {Undefined, "", " ", text}

AddressBodies ==
    { [id |-> 0,
       event_data |-> [EventData EXCEPT !.address = a, !.city = c,
                                        !.province = p, !.postal_code = z]] :
          a \in Components("1 Oxford St"), c \in Components("Cambridge"),
          p \in Components("MA"), z \in Components("02138") }

InitAddress ==
    /\ variant = "net"
    /\ config = [includeOtherTypes |-> TRUE, saveAttachedImages |-> FALSE,
                 saveScrapedImages |-> FALSE]
    /\ items = <<Item("event", 1)>>
    /\ phase = "parsed"
    /\ postTypes = <<>>
    /\ typeIdx = 0
    /\ pc = <<"idle">>
    /\ outcome = <<"none">>
    /\ timer = <<NoTimer>>
    /\ reqCount = <<0>>
    /\ reqTime = <<0>>
    /\ reqId = <<Undefined>>
    /\ result = <<<<>>>>
    /\ allPosts = <<>>
    /\ images = <<>>
    /\ mi = 0
    /\ mj = 0
    /\ now = 0
    /\ outOfOrder = FALSE

NextAddress ==
    \/ Start
    \/ FetchOk(1)
    \/ \E body \in AddressBodies : BodyJson(1, body)
    \/ AwaitAll
    \/ CollectImages
    \/ Return

SpecAddress == InitAddress /\ [][NextAddress]_vars

---------------------------------------------------------------------------
(* Properties *)

IsEvent(i) == items[i].post_type = EventType

\* item i is one collectPosts makes a record of
Selected(i) ==
    /\ items[i].status \notin {"trash", "draft"}
    /\ items[i].post_type \in SeqToSet(postTypes)

\* collectPosts has returned its list
Collected == phase \in {"collected", "merge", "done"}

EnrichmentKeys ==
    {"start_datetime", "end_datetime", "venue", "address", "ical_source_url"}

\* the record p of item i carries the frontmatter built before any enrichment
PreEnrichment(p, i) ==
    LET fm == Frontmatter(items[i], items[i].post_type)
    IN /\ DOMAIN p.frontmatter \cap EnrichmentKeys = {}
       /\ \A key \in DOMAIN fm :
             key \in DOMAIN p.frontmatter /\ p.frontmatter[key] = fm[key]

\* the returned list holds a record of item i
InList(i) == \E k \in 1..Len(allPosts) : allPosts[k].meta.id = items[i].post_id

\* C1: if the enrichment call of an ai1ec_event record X fails by transport
\* error or timeout, the run still returns its list, and the list contains X
\* with its pre-enrichment frontmatter.
C1_FailedEnrichmentKeepsRecord ==
    \A i \in 1..N :
        outcome[i] \in {"transport", "timeout"} =>
            /\ phase # "failed"
            /\ phase = "done" =>
                  \E k \in 1..Len(allPosts) :
                      /\ allPosts[k].meta.id = items[i].post_id
                      /\ PreEnrichment(allPosts[k], i)

\* event items i < j that are neighbours among the selected items of their type
AdjacentEvents(i, j) ==
    /\ i < j
    /\ IsEvent(i) /\ Selected(i)
    /\ IsEvent(j) /\ Selected(j)
    /\ ~ \E m \in (i + 1)..(j - 1) : IsEvent(m) /\ Selected(m)

\* C3: of two ai1ec_event records adjacent in input order, the request of the
\* later one is issued at least 5 time units after the request of the earlier.
C3_RequestsSpacedByDelay ==
    \A i, j \in 1..N :
        (AdjacentEvents(i, j) /\ reqCount[i] > 0 /\ reqCount[j] > 0) =>
            reqTime[j] >= reqTime[i] + PacingDelay

\* C4: no record of a type other than ai1ec_event ever waits on the pacing
\* delay of 5 time units.
C4_NoPacingDelayForOtherTypes ==
    \A i \in 1..N : ~IsEvent(i) => pc[i] # "delay"

\* C5: every enrichment call settles no later than 10 time units after its
\* request was issued: none is still awaited after that.
C5_CallSettlesWithinTimeout ==
    \A i \in 1..N :
        pc[i] \in {"fetch", "body"} => now <= reqTime[i] + FetchTimeout

\* position of the item a record of the list was made from
ItemOf(post) == CHOOSE i \in 1..N : items[i].post_id = post.meta.id

\* position of a type in the classified types
TypeRank(type) == CHOOSE n \in 1..Len(postTypes) : postTypes[n] = type

\* C2: the records are listed type by type in classified order and, within a
\* type, in the order of their items in the export, whatever the order in which
\* the enrichment calls completed; a completed run lists every selected record.
C2_InputOrderPreserved ==
    /\ \A a, b \in 1..Len(allPosts) :
          a < b =>
             LET ia == ItemOf(allPosts[a])
                 ib == ItemOf(allPosts[b])
             IN \/ TypeRank(items[ia].post_type) < TypeRank(items[ib].post_type)
                \/ items[ia].post_type = items[ib].post_type /\ ia < ib
    /\ Collected => \A i \in 1..N : Selected(i) => InList(i)

\* a run completed although a later event record settled before an earlier one
C2_Witness ==
    /\ phase = "done"
    /\ outOfOrder
    /\ \E a, b \in 1..Len(allPosts) :
          /\ a < b
          /\ allPosts[a].meta.type = EventType
          /\ allPosts[b].meta.type = EventType

\* the request issued for item i has been answered, has failed or is awaited
Requested(i) ==
    \/ pc[i] \in {"fetch", "body"}
    \/ outcome[i] \in {"ok", "nonok", "nodata", "transport", "timeout", "bodyerr"}

\* C6: no record ever has more than one request issued for it, whatever the
\* outcome of the first; a record of another type, and an item that is not
\* selected, has none; the one request of an event record carries that
\* record's id; and when collectPosts returns, every selected event record
\* has had exactly one.
C6_OneRequestPerEventRecord ==
    \A i \in 1..N :
        /\ reqCount[i] <= 1
        /\ (~IsEvent(i) \/ ~Selected(i)) => reqCount[i] = 0
        /\ reqCount[i] = 1 => reqId[i] = items[i].post_id
        /\ Requested(i) => reqCount[i] = 1
        /\ (Collected /\ IsEvent(i) /\ Selected(i)) => reqCount[i] = 1

\* one call timed out, one failed in transport and one succeeded, and each
\* record still has had its single request
C6_Witness ==
    \E i, j, k \in 1..N :
        /\ outcome[i] = "timeout" /\ reqCount[i] = 1
        /\ outcome[j] = "transport" /\ reqCount[j] = 1
        /\ outcome[k] = "ok" /\ reqCount[k] = 1

\* C7: a call answered with a non-OK status, or with a body that has no
\* event_data, makes its callback return the record with exactly the
\* pre-enrichment frontmatter; it never fails the run, and the list
\* collectPosts returns holds that record and every other selected record.
C7_BadResponseLeavesRecordUnenriched ==
    /\ \A i \in 1..N :
          outcome[i] \in {"nonok", "nodata"} =>
             /\ pc[i] = "returned"
             /\ result[i] = <<[meta |-> Meta(items[i], EventType),
                               frontmatter |-> Frontmatter(items[i], EventType),
                               content |-> getPostContent(items[i])]>>
             /\ Collected =>
                   \E k \in 1..Len(allPosts) :
                       /\ allPosts[k].meta.id = items[i].post_id
                       /\ PreEnrichment(allPosts[k], i)
    /\ phase = "failed" =>
          \E j \in 1..N : outcome[j] \in {"malformed", "transport", "timeout", "bodyerr"}
    /\ Collected => \A j \in 1..N : Selected(j) => InList(j)

\* a run completed with one non-OK answer, one body without event_data, and
\* a third record
C7_Witness ==
    /\ phase = "done"
    /\ Len(allPosts) = 3
    /\ \E i, j \in 1..N : outcome[i] = "nonok" /\ outcome[j] = "nodata"

\* C8: a run fails only on an extraction error (a record lacking a required
\* field), whatever the outcome of the enrichment calls.
C8_RunFailsOnlyOnExtractionError ==
    phase = "failed" => \E i \in 1..N : outcome[i] = "malformed"

\* C9: at every step of mergeImagesIntoPosts and after it, no record's
\* meta.imageUrls holds a URL twice.
C9_NoDuplicateImageUrls ==
    \A k \in 1..Len(allPosts) :
        LET urls == allPosts[k].meta.imageUrls
        IN \A a, b \in 1..Len(urls) : a # b => urls[a] # urls[b]

\* after the merge: one asset fired Rule A and Rule B for a record, a scraped
\* asset with the same URL fired Rule A for it, and the URL is listed once
C9_Witness ==
    /\ phase = "done"
    /\ \E k \in 1..Len(allPosts), m, n \in 1..Len(images) :
          /\ images[m].postId = allPosts[k].meta.id
          /\ images[m].id = allPosts[k].meta.coverImageId
          /\ images[n].id = ScrapedId
          /\ images[n].postId = allPosts[k].meta.id
          /\ images[n].url = images[m].url
          /\ allPosts[k].meta.imageUrls = <<images[m].url>>

\* the distinct URLs, in first-seen order, of the images that Rule A or Rule B
\* relates to the post
MatchingUrls(post) ==
    LET Match(image) ==
            image.postId = post.meta.id \/ image.id = post.meta.coverImageId
        m == SelectSeq(images, Match)
    IN Dedup([n \in 1..Len(m) |-> m[n].url])

\* the example of the specification: attachments 5 (a.png) and 6 (b.gif) of
\* record 10, whose cover image is 6
ExampleImages ==
    <<[id |-> "5", postId |-> "10", url |-> Url("a.png")],
      [id |-> "6", postId |-> "10", url |-> Url("b.gif")]>>

IsExample ==
    /\ images = ExampleImages
    /\ Len(allPosts) = 1
    /\ allPosts[1].meta.id = "10"
    /\ allPosts[1].meta.coverImageId = "6"

\* C10: after mergeImagesIntoPosts (lines 513-534), each record's
\* meta.imageUrls is the sequence of the distinct URLs of the assets with
\* asset.postId = record.meta.id or asset.id = record.meta.coverImageId, in
\* first-seen order of the asset list; in the example, imageUrls is
\* [a.png, b.gif] and coverImage is b.gif.
C10_ImageUrlsAreMatchingAssets ==
    (phase = "done" /\ variant = "net") =>
        /\ \A k \in 1..Len(allPosts) :
              allPosts[k].meta.imageUrls = MatchingUrls(allPosts[k])
        /\ IsExample =>
              /\ allPosts[1].meta.imageUrls = <<Url("a.png"), Url("b.gif")>>
              /\ "coverImage" \in DOMAIN allPosts[1].frontmatter
              /\ allPosts[1].frontmatter.coverImage = "b.gif"

\* the merge of the example is through
C10_Witness ==
    /\ phase = "done"
    /\ variant = "net"
    /\ IsExample
    /\ allPosts[1].meta.imageUrls = <<Url("a.png"), Url("b.gif")>>

---------------------------------------------------------------------------
(* The run over exports of any declared types: posts, pages and the types  *)
(* getPostTypes leaves out.  No item is an event, so no request is issued. *)

TypeUniverse == {"post", "page"} \cup ExcludedTypes

TypedItem(type, k) ==
    IF type = "attachment" THEN Item("attachment", k)
    ELSE [Item("post", k) EXCEPT !.post_type = type]

TypedExports ==
    { [k \in 1..MaxItems |-> TypedItem(f[k], k)] : f \in [1..MaxItems -> TypeUniverse] }

InitTypes ==
    /\ variant = "net"
    /\ config \in Configs
    /\ items \in TypedExports
    /\ phase = "parsed"
    /\ postTypes = <<>>
    /\ typeIdx = 0
    /\ pc = [i \in 1..MaxItems |-> "idle"]
    /\ outcome = [i \in 1..MaxItems |-> "none"]
    /\ timer = [i \in 1..MaxItems |-> NoTimer]
    /\ reqCount = [i \in 1..MaxItems |-> 0]
    /\ reqTime = [i \in 1..MaxItems |-> 0]
    /\ reqId = [i \in 1..MaxItems |-> Undefined]
    /\ result = [i \in 1..MaxItems |-> <<>>]
    /\ allPosts = <<>>
    /\ images = <<>>
    /\ mi = 0
    /\ mj = 0
    /\ now = 0
    /\ outOfOrder = FALSE

NextTypes ==
    \/ Start
    \/ \E i \in 1..N : DelayFire(i)
    \/ AwaitAll
    \/ CollectImages
    \/ MergeStep
    \/ Return
    \/ Tick

SpecTypes == InitTypes /\ [][NextTypes]_vars

\* position of the first item of the type in the export
FirstOfType(type) ==
    CHOOSE i \in 1..N :
        items[i].post_type = type /\ \A j \in 1..(i - 1) : items[j].post_type # type

\* C11: with includeOtherTypes, the classified types are the declared types of
\* the items without attachment, revision, nav_menu_item, custom_css and
\* customize_changeset, each once, in first-seen order; an export of excluded
\* types only gives no type and no record.
C11_ClassifiedTypes ==
    LET excluded == {"attachment", "revision", "nav_menu_item", "custom_css",
                     "customize_changeset"}
        declared == {items[i].post_type : i \in 1..N}
    IN (phase # "parsed" /\ config.includeOtherTypes) =>
          /\ SeqToSet(postTypes) = declared \ excluded
          /\ \A a, b \in 1..Len(postTypes) :
                a < b => /\ postTypes[a] # postTypes[b]
                         /\ FirstOfType(postTypes[a]) < FirstOfType(postTypes[b])
          /\ declared \subseteq excluded =>
                /\ postTypes = <<>>
                /\ allPosts = <<>>
                /\ \A i \in 1..N : pc[i] = "idle"

\* a run over two items of one kept type and an item of an excluded type is
\* through, and so is a run over excluded types only
C11_Witness ==
    /\ phase = "done"
    /\ config.includeOtherTypes
    /\ \/ /\ Len(postTypes) = 1
          /\ Len(allPosts) = 2
          /\ \E i \in 1..N : items[i].post_type = "revision"
       \/ /\ postTypes = <<>>
          /\ \E i \in 1..N : items[i].post_type = "custom_css"

\* C12: a selected record that lacks its id fails alone: the run does not
\* fail, and the returned list holds every other selected record.
C12_MalformedRecordIsSkipped ==
    \A i \in 1..N :
        outcome[i] = "malformed" =>
            /\ phase # "failed"
            /\ phase = "done" =>
                  \A j \in 1..N :
                      (Selected(j) /\ items[j].post_id # Undefined) => InList(j)

\* C13: a call answered with a body that has event_data makes its callback
\* return a record whose frontmatter has the eight keys built before the call,
\* each with its value of before the call, and the five keys start_datetime,
\* end_datetime, venue, address and ical_source_url taken from the body, and
\* no other; meta and content are those built before the call.
C13_EnrichmentAddsFiveKeys ==
    \A i \in 1..N :
        outcome[i] = "ok" =>
            LET p == result[i][1]
                before == Frontmatter(items[i], EventType)
            IN /\ DOMAIN p.frontmatter =
                     {"title", "date", "categories", "tags", "wp_id", "wp_type",
                      "wp_slug", "creator", "start_datetime", "end_datetime",
                      "venue", "address", "ical_source_url"}
               /\ \A key \in DOMAIN before : p.frontmatter[key] = before[key]
               /\ p.frontmatter.start_datetime = EventData.start_datetime
               /\ p.frontmatter.end_datetime = EventData.end_datetime
               /\ p.frontmatter.venue = EventData.venue
               /\ p.frontmatter.ical_source_url = EventData.ical_source_url
               /\ p.meta = Meta(items[i], EventType)
               /\ p.content = getPostContent(items[i])
               /\ Collected =>
                     \E k \in 1..Len(allPosts) :
                         /\ allPosts[k].meta.id = items[i].post_id
                         /\ \A key \in DOMAIN p.frontmatter :
                               allPosts[k].frontmatter[key] = p.frontmatter[key]

\* a run is through with an enriched record in its list
C13_Witness ==
    /\ phase = "done"
    /\ \E i \in 1..N, k \in 1..Len(allPosts) :
          /\ outcome[i] = "ok"
          /\ allPosts[k].meta.id = items[i].post_id
          /\ "venue" \in DOMAIN allPosts[k].frontmatter

\* what the call of item i was answered with: <<body>>, or <<>> for none
Response(i) ==
    CASE outcome[i] = "ok" -> <<BodyWithEventData>>
      [] outcome[i] = "nodata" -> <<BodyWithoutEventData>>
      [] OTHER -> <<>>

\* C14: under every interleaving, the record a callback returns is made of
\* its own item and of the answer to its own call only, and a callback that
\* has not returned has written nothing; a call is aborted by timeout only
\* when its own request is 10 time units old, and a call in flight keeps its
\* own timer whatever happens to the other calls.
C14_UnitsWriteOwnRecord ==
    \A i \in 1..N :
        /\ pc[i] = "returned" =>
              result[i] = <<PostRecord(items[i], items[i].post_type, Response(i))>>
        /\ pc[i] # "returned" => result[i] = <<>>
        /\ outcome[i] = "timeout" =>
              reqCount[i] = 1 /\ now >= reqTime[i] + FetchTimeout
        /\ pc[i] = "fetch" => timer[i] = reqTime[i] + FetchTimeout

\* the call of one record has timed out while the call of another, issued
\* later, is still in flight, and a third record was enriched meanwhile
C14_Witness ==
    \E i, j, k \in 1..N :
        /\ outcome[i] = "timeout"
        /\ pc[j] = "fetch" /\ reqTime[j] > reqTime[i]
        /\ outcome[k] = "ok"

\* the record carries nothing of the correlation yet
Uncorrelated(p) ==
    p.meta.imageUrls = <<>> /\ "coverImage" \notin DOMAIN p.frontmatter

\* the records p and q differ in meta.imageUrls and frontmatter.coverImage at most
SameButImages(p, q) ==
    /\ [p.meta EXCEPT !.imageUrls = <<>>] = [q.meta EXCEPT !.imageUrls = <<>>]
    /\ p.content = q.content
    /\ DOMAIN p.frontmatter \ {"coverImage"} = DOMAIN q.frontmatter \ {"coverImage"}
    /\ \A key \in DOMAIN p.frontmatter \ {"coverImage"} :
          p.frontmatter[key] = q.frontmatter[key]

\* mergeImagesIntoPosts runs only when nothing of collectPosts is pending
C15_NothingPendingAtMerge ==
    /\ phase \in {"merge", "done"} =>
          \A i \in 1..N :
              /\ ~Pending(i)
              /\ timer[i] = NoTimer
              /\ Selected(i) => pc[i] = "returned"
    /\ phase \notin {"merge", "done"} =>
          \A k \in 1..Len(allPosts) : Uncorrelated(allPosts[k])

\* a step changes a listed record only inside mergeImagesIntoPosts, and there
\* only its imageUrls and coverImage; a record enters the list uncorrelated
C15_OnlyMergeWrites ==
    /\ Len(allPosts') >= Len(allPosts)
    /\ \A k \in 1..Len(allPosts) :
          allPosts'[k] # allPosts[k] =>
              /\ phase = "merge" /\ phase' = "merge"
              /\ SameButImages(allPosts[k], allPosts'[k])
    /\ \A k \in (Len(allPosts) + 1)..Len(allPosts') : Uncorrelated(allPosts'[k])
    /\ phase = "done" => allPosts' = allPosts /\ result' = result

\* C15: mergeImagesIntoPosts starts only after every callback of collectPosts
\* has returned and every timer is cleared; only its steps change a listed
\* record, and only in imageUrls and coverImage; once it has completed no
\* record changes any more.
C15_CorrelatorIsFinalPass == []C15_NothingPendingAtMerge /\ [][C15_OnlyMergeWrites]_vars

\* a run with an enriched record completed, and the correlation gave a record
\* an image url and a cover image
C15_Witness ==
    /\ phase = "done"
    /\ \E i \in 1..N : outcome[i] = "ok"
    /\ \E k \in 1..Len(allPosts) :
          /\ allPosts[k].meta.imageUrls # <<>>
          /\ "coverImage" \in DOMAIN allPosts[k].frontmatter

\* C16: an item whose status is trash or draft never gets a callback, a
\* request or a record; and in the list collectPosts returns, an item of a
\* classified type has a record if and only if its status is neither.
C16_TrashAndDraftExcluded ==
    /\ \A i \in 1..N :
          items[i].status \in {"trash", "draft"} =>
              /\ pc[i] = "idle"
              /\ reqCount[i] = 0
              /\ result[i] = <<>>
              /\ ~InList(i)
    /\ Collected =>
          \A i \in 1..N :
              items[i].post_type \in SeqToSet(postTypes) =>
                  (InList(i) <=> items[i].status \notin {"trash", "draft"})

\* a run completed over a draft event, a trashed post and a listed record
C16_Witness ==
    /\ phase = "done"
    /\ \E i, j, m \in 1..N :
          /\ IsEvent(i) /\ items[i].status = "draft"
          /\ items[j].post_type = "post" /\ items[j].status = "trash"
          /\ EventType \in SeqToSet(postTypes)
          /\ InList(m)

\* a component that is absent, empty or whitespace only
Blank(c) == c \in {Undefined, "", " "}

\* the non-blank ones of address, city, province, postal code, joined with ", "
StrictAddress(e) ==
    LET NotBlank(c) == ~Blank(c)
        valid == SelectSeq(<<e.address, e.city, e.province, e.postal_code>>, NotBlank)
    IN [n \in 1..(2 * Len(valid) - 1) |->
           IF n % 2 = 1 THEN valid[(n + 1) \div 2] ELSE ", "]

\* C17: the address of a record enriched from a body is the non-blank ones of
\* the body's address, city, province and postal code, in that order, joined
\* with ", ": no empty segment, no leading or trailing separator.
C17_AddressOmitsBlankComponents ==
    [][\A i \in 1..N, body \in AddressBodies :
          BodyJson(i, body) =>
              result'[i][1].frontmatter.address = StrictAddress(body.event_data)]_vars

\* C18: no step of mergeImagesIntoPosts, and no step after it, changes the
\* list of images: its length, its order and the id, postId and url of each
\* image stay what they were when the merge began.
C18_ImagesUnchangedByMerge ==
    [][(phase \in {"merge", "done"}) => (images' = images)]_vars

\* a merge over several images completed and attached one to a post
C18_Witness ==
    /\ phase = "done"
    /\ Len(images) >= 2
    /\ images[1] # images[2]
    /\ \E k \in 1..Len(allPosts) : images[2].url \in SeqToSet(allPosts[k].meta.imageUrls)

\* the callback of item i has started: it ran, waits, or has issued a request
Started(i) == pc[i] # "idle" \/ reqCount[i] > 0 \/ result[i] # <<>>

\* C19: the types are processed one after another in classified order: when
\* the callback of a record of a later type has started, every record of
\* every earlier type has returned; so no two types have callbacks pending
\* at the same time.
C19_TypesProcessedInTurn ==
    /\ \A i, j \in 1..N :
          (/\ Started(j)
           /\ items[i].post_type # items[j].post_type
           /\ Selected(i) /\ Selected(j)
           /\ TypeRank(items[i].post_type) < TypeRank(items[j].post_type))
              => pc[i] = "returned"
    /\ \A i, j \in 1..N :
          (Pending(i) /\ Pending(j)) => items[i].post_type = items[j].post_type

\* a record of a later type waits on its delay, after an enriched event
\* record of an earlier type has returned
C19_Witness ==
    \E i, j \in 1..N :
        /\ Selected(i) /\ Selected(j)
        /\ TypeRank(items[i].post_type) < TypeRank(items[j].post_type)
        /\ outcome[i] = "ok"
        /\ pc[j] = "delay"

\* positions in the list of the images whose id is the post's coverImageId
CoverMatches(p) == {m \in 1..Len(images) : images[m].id = p.meta.coverImageId}

Max(S) == CHOOSE m \in S : \A n \in S : n <= m

\* C20: after the merge a record has a coverImage if and only if some image's
\* id equals its coverImageId, and then it is the filename of the last such
\* image of the list; a record without coverImageId has no coverImage and
\* only urls of images attached to it; no scraped image matches by Rule B.
C20_CoverImageFromLastMatch ==
    /\ phase = "done" =>
          \A k \in 1..Len(allPosts) :
              LET p == allPosts[k]
              IN /\ "coverImage" \in DOMAIN p.frontmatter <=> CoverMatches(p) # {}
                 /\ CoverMatches(p) # {} =>
                       p.frontmatter.coverImage = Last(images[Max(CoverMatches(p))].url)
                 /\ p.meta.coverImageId = Undefined =>
                       /\ "coverImage" \notin DOMAIN p.frontmatter
                       /\ \A url \in SeqToSet(p.meta.imageUrls) :
                             \E m \in 1..Len(images) :
                                 images[m].url = url /\ images[m].postId = p.meta.id
    /\ \A m \in 1..Len(images), k \in 1..Len(allPosts) :
          images[m].id = ScrapedId => ~RuleB(images[m], allPosts[k], variant)

\* two images with different filenames match the coverImageId of a record of
\* the live variant, and the record has the filename of the later one
C20_Witness ==
    /\ phase = "done"
    /\ variant = "net"
    /\ \E k \in 1..Len(allPosts), m1, m2 \in 1..Len(images) :
          /\ m1 < m2
          /\ {m1, m2} \subseteq CoverMatches(allPosts[k])
          /\ Last(images[m1].url) # Last(images[m2].url)
          /\ allPosts[k].frontmatter.coverImage = Last(images[m2].url)

=============================================================================
